---- MODULE Spec2Model ----
(***************************************************************************)
(* Model of worker/scripts/faster_whisper_transcribe.py: main().           *)
(*                                                                         *)
(* The script is a linear pipeline: import faster_whisper, construct the   *)
(* model, call transcribe, flatten the returned segments in one for loop,  *)
(* print the payload.  The collaborator (faster_whisper) is external: its  *)
(* outcomes (import ok / raises, constructor ok / raises, transcribe ok /  *)
(* raises, the returned segments and info) are nondeterministic inputs.    *)
(*                                                                         *)
(* Python values.  An attribute of a collaborator object is modelled as an *)
(* optional: Missing (the object has no such attribute), None (attribute   *)
(* present, value None) or Val(x).  The source itself distinguishes the    *)
(* three: it reads segment.text / .start / .end directly, and uses         *)
(* getattr(..., default) for segment.words, the word fields and            *)
(* info.language.  Times are integers standing for float values (float()   *)
(* of a number keeps its value); strings are sequences of one-character    *)
(* strings so that str.strip() and " ".join() are computed, not assumed.   *)
(***************************************************************************)
EXTENDS Integers, Sequences, FiniteSets, TLC

\* ---- bounds of the model ------------------------------------------------
MaxSegs == 2
MaxWords == 1

\* ---- exit statuses ------------------------------------------------------
ExitOk == 0
ExitUncaught == 1
ExitImportFailed == 2
ExitTranscribeFailed == 3

\* ---- Python optionals ---------------------------------------------------
Missing == [k |-> "missing"]
None == [k |-> "none"]
Val(x) == [k |-> "val", v |-> x]

\* getattr(obj, name, default): the default only when the attribute is absent
GetAttr(field, default) == IF field = Missing THEN default ELSE field

\* `x or d` for a number-or-None x: None and 0.0 are both falsy
OrNum(x, d) == IF x.k = "val" /\ x.v # 0 THEN x.v ELSE d

\* `x or ""` for a string-or-None x: None and "" are both falsy
OrStr(x) == IF x.k = "val" THEN x.v ELSE << >>

\* `x or []` for a list-or-None x
OrList(x) == IF x.k = "val" THEN x.v ELSE << >>

Max(a, b) == IF a >= b THEN a ELSE b

\* ---- str.strip() and " ".join() -----------------------------------------
Whitespace == {" ", "\t"}

RECURSIVE LStrip(_)
LStrip(s) == IF s # << >> /\ Head(s) \in Whitespace THEN LStrip(Tail(s)) ELSE s

RECURSIVE RStrip(_)
RStrip(s) ==
    IF s # << >> /\ s[Len(s)] \in Whitespace
    THEN RStrip(SubSeq(s, 1, Len(s) - 1))
    ELSE s

Strip(s) == RStrip(LStrip(s))

RECURSIVE JoinWith(_, _)
JoinWith(sep, parts) ==
    IF parts = << >> THEN << >>
    ELSE IF Len(parts) = 1 THEN parts[1]
    ELSE parts[1] \o sep \o JoinWith(sep, Tail(parts))

JoinNoSeparator(parts) == JoinWith(<< >>, parts)

\* " ".join(text_parts)
JoinParts(parts) == JoinWith(<<" ">>, parts)

\* ---- inputs: what the collaborator may hand back ------------------------
SeqsUpTo(S, n) == UNION {[1..k -> S] : k \in 0..n}

ArgLanguages == {"pt", "de"}
InfoLanguages == {Missing, None, Val("en")}
ImportErrors == {"No module named 'faster_whisper'"}
InvokeErrors == {"invalid model size", "no such file"}

StartVals == {Missing, None, Val(0), Val(1)}
EndVals == {Missing, None, Val(-1), Val(0), Val(2)}
TextVals == {Missing, None, Val(<< >>), Val(<<" ">>), Val(<<"\t", "c", " ">>)}

WordDomain ==
    { [start |-> Val(0),  end |-> Val(1),  word |-> Val(<<" ", "x">>)],
      [start |-> Val(1),  end |-> Val(0),  word |-> Val(<<"y">>)],
      [start |-> Missing, end |-> Missing, word |-> Val(<<"z", " ">>)],
      [start |-> Val(1),  end |-> Val(2),  word |-> Val(<<" ">>)],
      [start |-> None,    end |-> None,    word |-> None],
      [start |-> Val(2),  end |-> Val(2),  word |-> Missing] }

TimeSegs ==
    { [start |-> s, end |-> e, text |-> Val(<<"a">>), words |-> None] :
        s \in StartVals, e \in EndVals }

TextSegs ==
    { [start |-> Val(0), end |-> Val(1), text |-> t, words |-> Missing] :
        t \in TextVals }

WordSegs ==
    { [start |-> Val(1), end |-> Val(2), text |-> Val(<<"b", " ">>),
       words |-> Val(ws)] : ws \in SeqsUpTo(WordDomain, MaxWords) }

SegDomain == TimeSegs \cup TextSegs \cup WordSegs

\* ---- the pieces of main() -----------------------------------------------
ImportErrorPayloadNoHint(exc) ==
    [error |-> <<"faster_whisper import failed: ", exc>>]

ImportErrorPayload(exc) ==
    [error |-> <<"faster_whisper import failed: ", exc>>,
     hint  |-> "Install with: pip3 install faster-whisper"]

TranscribeErrorPayloadWithHint(exc) ==
    [error |-> <<"transcribe failed: ", exc>>,
     hint  |-> "Install with: pip3 install faster-whisper"]

TranscribeErrorPayload(exc) == [error |-> <<"transcribe failed: ", exc>>]

JsonLine(doc) == [kind |-> "json", doc |-> doc]

\* what the interpreter prints for an exception that leaves main()
TracebackLine(exc) == [kind |-> "traceback", doc |-> [exc |-> exc]]

\* segment.text, segment.start, segment.end are plain attribute reads
SegmentRaises(segment) ==
    \/ segment.text = Missing
    \/ segment.start = Missing
    \/ segment.end = Missing

SegText(segment) == Strip(OrStr(segment.text))

TextParts(parts, seg_text) ==
    IF seg_text # << >> THEN Append(parts, seg_text) ELSE parts

SegStart(segment) == OrNum(segment.start, 0)

SegEnd(segment, seg_start) == OrNum(segment.end, seg_start)

AppendSegmentNonEmpty(out, seg_start, seg_end, seg_text) ==
    IF seg_text = << >> THEN out
    ELSE Append(out, [start |-> seg_start, end |-> seg_end, text |-> seg_text])

AppendSegment(out, seg_start, seg_end, seg_text) ==
    Append(out, [start |-> seg_start, end |-> seg_end, text |-> seg_text])

SegWords(segment) == OrList(GetAttr(segment.words, None))

WordStart(word) == OrNum(GetAttr(word.start, Val(0)), 0)

WordEnd(word, w_start) == OrNum(GetAttr(word.end, Val(w_start)), w_start)

WordToken(word) == Strip(OrStr(GetAttr(word.word, Val(<< >>))))

KeepWordAlways(token) == TRUE

\* `if not token: continue`
KeepWord(token) == token # << >>

RECURSIVE FlattenWords(_, _)
FlattenWords(out, words) ==
    IF words = << >> THEN out
    ELSE LET word    == Head(words)
             w_start == WordStart(word)
             w_end   == WordEnd(word, w_start)
             token   == WordToken(word)
         IN  FlattenWords(
                 IF KeepWord(token)
                 THEN Append(out, [start |-> w_start, end |-> w_end,
                                   word |-> token])
                 ELSE out,
                 Tail(words))

Payload(parts, maxEnd, segs, wrds, inf, language) ==
    [text     |-> Strip(JoinParts(parts)),
     duration |-> maxEnd,
     segments |-> segs,
     words    |-> wrds,
     language |-> GetAttr(inf.language, Val(language))]

\* ---- state --------------------------------------------------------------
VARIABLES
    pc,               \* position in main()
    args_language,    \* args.language
    failure,          \* which stage raised: "none", "import", "invoke", "flatten"
    modelConstructed, \* WhisperModel(...) has been called
    transcribeCalled, \* model.transcribe(...) has been called
    segments,         \* the segments transcribe returned
    info,             \* the info object transcribe returned
    i,                \* number of segments the for loop has consumed
    out_segments,
    out_words,
    text_parts,
    max_end,
    stdout,           \* lines written to sys.stdout
    stderr,           \* lines written to sys.stderr
    exit_status       \* -1 while main() is running

vars == <<pc, args_language, failure, modelConstructed, transcribeCalled,
          segments, info, i, out_segments, out_words, text_parts, max_end,
          stdout, stderr, exit_status>>

locals == <<i, out_segments, out_words, text_parts, max_end>>

Init ==
    /\ pc = "import"
    /\ args_language \in ArgLanguages
    /\ failure = "none"
    /\ modelConstructed = FALSE
    /\ transcribeCalled = FALSE
    /\ segments = << >>
    /\ info = [language |-> Missing]
    /\ i = 0
    /\ out_segments = << >>
    /\ out_words = << >>
    /\ text_parts = << >>
    /\ max_end = 0
    /\ stdout = << >>
    /\ stderr = << >>
    /\ exit_status = -1

ImportOk ==
    /\ pc = "import"
    /\ pc' = "construct"
    /\ UNCHANGED <<args_language, failure, modelConstructed, transcribeCalled,
                   segments, info, locals, stdout, stderr, exit_status>>

ImportFail ==
    /\ pc = "import"
    /\ \E exc \in ImportErrors :
         stderr' = Append(stderr, JsonLine(ImportErrorPayload(exc)))
    /\ failure' = "import"
    /\ exit_status' = ExitImportFailed
    /\ pc' = "done"
    /\ UNCHANGED <<args_language, modelConstructed, transcribeCalled,
                   segments, info, locals, stdout>>

ConstructOk ==
    /\ pc = "construct"
    /\ modelConstructed' = TRUE
    /\ pc' = "transcribe"
    /\ UNCHANGED <<args_language, failure, transcribeCalled, segments, info,
                   locals, stdout, stderr, exit_status>>

ConstructRaise ==
    /\ pc = "construct"
    /\ modelConstructed' = TRUE
    /\ \E exc \in InvokeErrors :
         stderr' = Append(stderr, JsonLine(TranscribeErrorPayload(exc)))
    /\ failure' = "invoke"
    /\ exit_status' = ExitTranscribeFailed
    /\ pc' = "done"
    /\ UNCHANGED <<args_language, transcribeCalled, segments, info, locals,
                   stdout>>

TranscribeOk ==
    /\ pc = "transcribe"
    /\ transcribeCalled' = TRUE
    /\ \E segs \in SeqsUpTo(SegDomain, MaxSegs), lang \in InfoLanguages :
         /\ segments' = segs
         /\ info' = [language |-> lang]
    /\ pc' = "loop"
    /\ UNCHANGED <<args_language, failure, modelConstructed, locals, stdout,
                   stderr, exit_status>>

TranscribeRaise ==
    /\ pc = "transcribe"
    /\ transcribeCalled' = TRUE
    /\ \E exc \in InvokeErrors :
         stderr' = Append(stderr, JsonLine(TranscribeErrorPayload(exc)))
    /\ failure' = "invoke"
    /\ exit_status' = ExitTranscribeFailed
    /\ pc' = "done"
    /\ UNCHANGED <<args_language, modelConstructed, segments, info, locals,
                   stdout>>

\* one iteration of `for segment in segments:`
LoopBody ==
    /\ pc = "loop"
    /\ i < Len(segments)
    /\ ~SegmentRaises(segments[i + 1])
    /\ LET segment   == segments[i + 1]
           seg_text  == SegText(segment)
           seg_start == SegStart(segment)
           seg_end   == SegEnd(segment, seg_start)
       IN  /\ text_parts' = TextParts(text_parts, seg_text)
           /\ max_end' = Max(max_end, seg_end)
           /\ out_segments' =
                  AppendSegment(out_segments, seg_start, seg_end, seg_text)
           /\ out_words' = FlattenWords(out_words, SegWords(segment))
    /\ i' = i + 1
    /\ UNCHANGED <<pc, args_language, failure, modelConstructed,
                   transcribeCalled, segments, info, stdout, stderr,
                   exit_status>>

\* an iteration whose attribute read raises AttributeError: nothing catches
\* it, the interpreter prints the traceback and exits with status 1
LoopBodyRaise ==
    /\ pc = "loop"
    /\ i < Len(segments)
    /\ SegmentRaises(segments[i + 1])
    /\ LET segment == segments[i + 1]
       IN  text_parts' =
             IF segment.text # Missing
             THEN TextParts(text_parts, SegText(segment))
             ELSE text_parts
    /\ stderr' = Append(stderr, TracebackLine("AttributeError"))
    /\ failure' = "flatten"
    /\ exit_status' = ExitUncaught
    /\ pc' = "done"
    /\ UNCHANGED <<args_language, modelConstructed, transcribeCalled,
                   segments, info, i, out_segments, out_words, max_end,
                   stdout>>

Emit ==
    /\ pc = "loop"
    /\ i = Len(segments)
    /\ stdout' = Append(stdout,
                   JsonLine(Payload(text_parts, max_end, out_segments,
                                    out_words, info, args_language)))
    /\ exit_status' = ExitOk
    /\ pc' = "done"
    /\ UNCHANGED <<args_language, failure, modelConstructed, transcribeCalled,
                   segments, info, locals, stderr>>

Next ==
    \/ ImportOk
    \/ ImportFail
    \/ ConstructOk
    \/ ConstructRaise
    \/ TranscribeOk
    \/ TranscribeRaise
    \/ LoopBody
    \/ LoopBodyRaise
    \/ Emit

Spec == Init /\ [][Next]_vars

\* ---- vocabulary of the properties ---------------------------------------
Success == pc = "done" /\ exit_status = ExitOk

\* the payload printed on standard output (only read when Success)
PrintedPayload == stdout[1].doc

\* the input text of a segment, trimmed; absent text counts as empty
TrimmedText(segment) ==
    IF segment.text.k = "val" THEN Strip(segment.text.v) ELSE << >>

\* the input token of a word, trimmed; absent token counts as empty
TrimmedToken(word) ==
    IF word.word.k = "val" THEN Strip(word.word.v) ELSE << >>

\* every word record the collaborator supplied, segment order then word order
RECURSIVE AllInputWords(_)
AllInputWords(segs) ==
    IF segs = << >> THEN << >>
    ELSE (IF Head(segs).words.k = "val" THEN Head(segs).words.v ELSE << >>)
         \o AllInputWords(Tail(segs))

KeptInputWords ==
    SelectSeq(AllInputWords(segments), LAMBDA w : TrimmedToken(w) # << >>)

NonEmptyTexts ==
    SelectSeq([j \in 1..Len(segments) |-> TrimmedText(segments[j])],
              LAMBDA t : t # << >>)

RECURSIVE SumLen(_)
SumLen(parts) ==
    IF parts = << >> THEN 0 ELSE Len(Head(parts)) + SumLen(Tail(parts))

\* the largest input `end` value (only read when every end is given)
MaxInputEnd ==
    IF segments = << >> THEN 0
    ELSE LET ends == {segments[j].end.v : j \in 1..Len(segments)}
         IN  CHOOSE m \in ends : \A e \in ends : m >= e

\* ---- C1 -----------------------------------------------------------------
\* C1: when the faster_whisper import fails, the run has ended with exit
\* status 2, standard error holds exactly one JSON object whose keys are
\* exactly error and hint, standard output is empty, and the model was
\* neither constructed nor invoked.
C1_ImportFailure ==
    failure = "import" =>
        /\ pc = "done"
        /\ exit_status = 2
        /\ Len(stderr) = 1
        /\ stderr[1].kind = "json"
        /\ DOMAIN stderr[1].doc = {"error", "hint"}
        /\ stdout = << >>
        /\ ~modelConstructed
        /\ ~transcribeCalled

C1_Witness == failure = "import" /\ pc = "done" /\ stderr # << >>

\* ---- C2 -----------------------------------------------------------------
\* C2: when the import succeeded and the model construction or the
\* transcribe call raises, the run has ended with exit status 3, standard
\* error holds exactly one JSON object whose only key is error, and standard
\* output is empty.
C2_InvokeFailure ==
    failure = "invoke" =>
        /\ pc = "done"
        /\ exit_status = 3
        /\ Len(stderr) = 1
        /\ stderr[1].kind = "json"
        /\ DOMAIN stderr[1].doc = {"error"}
        /\ stdout = << >>

C2_Witness ==
    failure = "invoke" /\ modelConstructed /\ transcribeCalled /\ pc = "done"

\* ---- C3 -----------------------------------------------------------------
\* C3: every finished run has emitted exactly one JSON document: one line on
\* standard output and nothing on standard error when the exit status is 0,
\* one JSON line on standard error and nothing on standard output otherwise;
\* standard output never holds more than one line and the two streams are
\* never both written.
C3_ExactlyOneDocument ==
    /\ Len(stdout) <= 1
    /\ ~(stdout # << >> /\ stderr # << >>)
    /\ pc = "done" =>
         \/ /\ exit_status = 0
            /\ Len(stdout) = 1
            /\ stdout[1].kind = "json"
            /\ stderr = << >>
         \/ /\ exit_status # 0
            /\ Len(stderr) = 1
            /\ stderr[1].kind = "json"
            /\ stdout = << >>

\* ---- C4 -----------------------------------------------------------------
\* C4: on a successful run whose segments all carry an end value, duration
\* equals the maximum of those end values, and 0.0 when there are no
\* segments, whatever the start and end values are.
C4_DurationIsMaxInputEnd ==
    (Success /\ \A j \in 1..Len(segments) : segments[j].end.k = "val") =>
        PrintedPayload.duration = MaxInputEnd

\* ---- C5 -----------------------------------------------------------------
\* C5: on a successful run, language is the tag reported in info when info
\* carries a value for it, and the --language flag value when info has no
\* language attribute or no usable value (None) for it.
C5_LanguageOrFlag ==
    Success =>
        PrintedPayload.language =
            IF info.language.k = "val" THEN info.language
            ELSE Val(args_language)

\* ---- C6 -----------------------------------------------------------------
\* C6: every output segment has text equal to the trimmed input text, start
\* equal to the input start when given and 0.0 when absent, and end equal to
\* the input end when given (0.0 included) and to the output start only when
\* the input end is absent.
C6_SegmentFields ==
    \A j \in 1..Len(out_segments) :
        /\ out_segments[j].text = TrimmedText(segments[j])
        /\ out_segments[j].start =
              IF segments[j].start.k = "val" THEN segments[j].start.v ELSE 0
        /\ out_segments[j].end =
              IF segments[j].end.k = "val" THEN segments[j].end.v
              ELSE out_segments[j].start

\* ---- C7 -----------------------------------------------------------------
\* C7: on a successful run, the payload has exactly one segment entry per
\* input segment, the j-th entry carrying the trimmed text and the start of
\* the j-th input segment; segments with empty or blank text are kept.
C7_SegmentsOneToOne ==
    Success =>
        /\ Len(PrintedPayload.segments) = Len(segments)
        /\ \A j \in 1..Len(segments) :
             /\ PrintedPayload.segments[j].text = TrimmedText(segments[j])
             /\ PrintedPayload.segments[j].start =
                   IF segments[j].start.k = "val"
                   THEN segments[j].start.v ELSE 0

C7_Witness ==
    /\ Success
    /\ Len(segments) = 2
    /\ TrimmedText(segments[1]) = << >>
    /\ TrimmedText(segments[2]) # << >>
    /\ Len(PrintedPayload.segments) = 2

C10_FlatteningNeverFails ==
    (transcribeCalled /\ failure # "invoke" /\ pc = "done") =>
        /\ failure = "none"
        /\ exit_status = 0
        /\ Len(stdout) = 1

====
